---- MODULE Spec2Model ----
(***************************************************************************)
(* Model of the debugging memory allocator of pset1/m61.cc: m61_malloc,    *)
(* m61_calloc and m61_free over the tracker's globals, the raw allocator   *)
(* (base_malloc / base_free) they delegate to, and the byte memory that    *)
(* holds the boundary-check word written past every block; and the         *)
(* reporters m61_get_statistics, m61_print_statistics,                     *)
(* m61_print_leak_report and m61_print_heavy_hitter_report.                *)
(***************************************************************************)
EXTENDS Integers, Naturals, Sequences, FiniteSets, TLC

(***************************************************************************)
(* Bounds of the model.                                                    *)
(***************************************************************************)
\* width in bits of size_t, uintptr_t and unsigned long long (64 in the build)
WordBits == 8
\* largest small size a caller passes to m61_malloc or m61_calloc
MaxSize == 2
\* number of allocation units of the raw allocator's arena
NumSlots == 6
\* size in bytes of one allocation unit of the raw allocator
Align == 16
\* first address of the raw allocator's arena
HeapBase == 16
\* caps on the calls made: allocations entered, failures, program writes
MaxAllocs == 2
MaxFails == 1
MaxWrites == 1

(***************************************************************************)
(* Program constants.                                                      *)
(***************************************************************************)
nullptr == 0
BOUNDARY_CHECK == 195935983
BOUNDARY_CHECK_SIZE == 4
MetaNodeSize == 24

Modulus == 2 ^ WordBits
ULONG_MAX == Modulus - 1
LONG_MAX == (2 ^ (WordBits - 1)) - 1

Lines == {5}

ArenaEnd == HeapBase + Align * NumSlots
ArenaBytes == HeapBase .. (ArenaEnd - 1)
SlotAddrs == {HeapBase + Align * i : i \in 0 .. (NumSlots - 1)}

\* the requests of a run of ordinary calls, <<size, file, line>>: an empty
\* block, a small block, and a request that no allocator can satisfy
Requests == {<<0, "x.c", 5>>, <<MaxSize, "y.c", 5>>,
             <<ULONG_MAX - BOUNDARY_CHECK_SIZE - 1, "x.c", 5>>}
\* and its array requests, <<nmemb, sz, file, line>>: one that fits and one
\* whose product overflows
ArrayRequests == {<<2, MaxSize, "y.c", 5>>, <<2, Modulus \div 2, "y.c", 5>>}
\* sizes near the top of size_t, and the counts and element sizes whose
\* products reach or pass it
HugeSizes == {Modulus \div 2, ULONG_MAX - BOUNDARY_CHECK_SIZE - 1,
              ULONG_MAX - BOUNDARY_CHECK_SIZE,
              ULONG_MAX - BOUNDARY_CHECK_SIZE + 1, ULONG_MAX}
Counts == {0, 1, 2, Modulus \div 2, ULONG_MAX}
ElemSizes == {MaxSize, Modulus \div 2, ULONG_MAX}
FreeFiles == {"x.c"}
\* byte values the host program stores
WriteBytes == {0, 239}
\* the allocation sites of the host program
Sites == {<<"x.c", 5>>, <<"y.c", 5>>}
\* no m61_statistics stored, no creating call
NoStats == [set |-> FALSE]
NoRecord == [set |-> FALSE]

VARIABLES
    metadata,     \* std::map<uintptr_t, metadata_node*>: address -> node pointer
    node,         \* contents of the metadata_node each live node pointer points to
    free_list,    \* std::set<uintptr_t>
    ntotal, nactive, active_size, total_size, fail_size, nfail,
    heap_min, heap_max,
    raw,          \* blocks the raw allocator has handed out: base -> size
    mem,          \* bytes of the arena
    term,         \* "running", "exit" (exit(-1)) or "crash" (abnormal end)
    call,         \* the last call made
    ret,          \* its return value
    diag,         \* the diagnostic it printed
    basecalls,    \* the raw allocator calls it made, in order
    life,         \* history: lifecycle of every address
    ever,         \* history: every successful allocation <<address, size>>
    reissued,     \* history: live addresses that were in free_list when handed out
    nwrites,      \* number of program writes so far
    out,          \* the lines the last call printed on standard output
    stats,        \* the m61_statistics the last call stored through its argument
    steps,        \* the steps the last m61_free took on a live block, in order
    born,         \* history: the call that created each block not yet freed
    sites,        \* history: bytes and count of the allocations of every site
    nfreed        \* history: number of frees that released a block

tracker == <<metadata, node, free_list, ntotal, nactive, active_size,
             total_size, fail_size, nfail, heap_min, heap_max>>
vars == <<metadata, node, free_list, ntotal, nactive, active_size, total_size,
          fail_size, nfail, heap_min, heap_max, raw, mem, term, call, ret,
          diag, basecalls, life, ever, reissued, nwrites, out, stats, steps,
          born, sites, nfreed>>

(***************************************************************************)
(* The raw allocator.                                                      *)
(***************************************************************************)
SlotsFor(n) == IF n = 0 THEN 1 ELSE (n + Align - 1) \div Align

Overlaps(a, n, b, m) ==
    /\ a < b + SlotsFor(m) * Align
    /\ b < a + SlotsFor(n) * Align

\* the bases of the runs of free units that hold n bytes
Fits(r, n) ==
    {a \in SlotAddrs :
        /\ a + SlotsFor(n) * Align <= ArenaEnd
        /\ \A b \in DOMAIN r : ~Overlaps(a, n, b, r[b])}

\* base_malloc(n): null, or the lowest or the highest run that holds n bytes
base_malloc(r, n) ==
    {nullptr} \cup
    {a \in Fits(r, n) : (\A b \in Fits(r, n) : a <= b) \/ (\A b \in Fits(r, n) : a >= b)}

RawAdd(r, a, n) == [b \in DOMAIN r \cup {a} |-> IF b = a THEN n ELSE r[b]]

\* base_free(p)
base_free(r, p) == [b \in DOMAIN r \ {p} |-> r[b]]

BaseMallocCall(n, res) == [f |-> "base_malloc", arg |-> n, res |-> res]
BaseFreeCall(p) == [f |-> "base_free", arg |-> p, res |-> nullptr]

(***************************************************************************)
(* Memory: the int written at and read from an address.                    *)
(***************************************************************************)
ByteOf(v, i) == (v \div (256 ^ i)) % 256

\* *(int*)a = v
StoreInt(m, a, v) ==
    [x \in DOMAIN m |->
        IF x >= a /\ x < a + BOUNDARY_CHECK_SIZE THEN ByteOf(v, x - a) ELSE m[x]]

\* *(int*)a, a little-endian signed 32-bit value
LoadInt(m, a) ==
    LET top == m[a + 3]
        low == m[a] + 256 * m[a + 1] + 65536 * m[a + 2]
    IN  (IF top >= 128 THEN top - 256 ELSE top) * 16777216 + low

\* memset(p, c, n)
Memset(m, p, c, n) ==
    [x \in DOMAIN m |-> IF x >= p /\ x < p + n THEN c ELSE m[x]]

Init ==
    /\ metadata = [a \in {} |-> nullptr]
    /\ node = [a \in {} |-> nullptr]
    /\ free_list = {}
    /\ ntotal = 0 /\ nactive = 0 /\ active_size = 0
    /\ total_size = 0 /\ fail_size = 0 /\ nfail = 0
    /\ heap_min = LONG_MAX
    /\ heap_max = 0
    /\ raw = [a \in {} |-> 0]
    /\ mem = [x \in ArenaBytes |-> 170]    \* memory never written holds junk
    /\ term = "running"
    /\ call = [op |-> "none"]
    /\ ret = nullptr
    /\ diag = "none"
    /\ basecalls = << >>
    /\ life = [a \in SlotAddrs |-> "Unknown"]
    /\ ever = {}
    /\ reissued = {}
    /\ nwrites = 0
    /\ out = << >>
    /\ stats = NoStats
    /\ steps = << >>
    /\ born = [a \in SlotAddrs |-> NoRecord]
    /\ sites = [s \in Sites |-> [bytes |-> 0, count |-> 0]]
    /\ nfreed = 0

\* a call that prints nothing on standard output and stores no statistics
Quiet == out' = << >> /\ stats' = NoStats

(***************************************************************************)
(* m61_malloc                                                              *)
(***************************************************************************)
\* TooLarge rejecting the largest size only
TooLargeOnlyMax(sz) == sz >= ULONG_MAX

\* the request is rejected before the raw allocator is asked
TooLarge(sz) == sz >= ULONG_MAX - BOUNDARY_CHECK_SIZE

\* ++nfail; fail_size += sz; of the size check
FailOverflow(sz) ==
    /\ nfail' = (nfail + 1) % Modulus
    /\ fail_size' = (fail_size + sz) % Modulus

\* FailRaw counting the padded size
FailRawPadded(sz) ==
    /\ nfail' = (nfail + 1) % Modulus
    /\ fail_size' = (fail_size + sz + BOUNDARY_CHECK_SIZE) % Modulus

\* ++nfail; fail_size += sz; after base_malloc returned null
FailRaw(sz) ==
    /\ nfail' = (nfail + 1) % Modulus
    /\ fail_size' = (fail_size + sz) % Modulus

\* a failed request returns null and leaves everything else alone
ReturnNull(calls) ==
    /\ ret' = nullptr
    /\ basecalls' = calls
    /\ diag' = "none"
    /\ UNCHANGED <<metadata, node, free_list, ntotal, nactive, active_size,
                   total_size, heap_min, heap_max, raw, mem, term, life, ever,
                   reissued, nwrites, born, sites, nfreed>>

\* ClearReuse leaving the address in free_list
ClearReuseNever(fl, p) == fl

\* the address is cleared from free_list when it is handed out again
ClearReuse(fl, p) == IF p \in fl THEN fl \ {p} ELSE fl

\* temp = (int*)(uintptr_memory + sz); temp[0] = BOUNDARY_CHECK
WriteBoundary(m, p, sz) == StoreInt(m, (p + sz) % Modulus, BOUNDARY_CHECK)

\* CountAlloc adding the padded size to total_size
CountAllocPadded(sz) ==
    /\ ntotal' = (ntotal + 1) % Modulus
    /\ nactive' = (nactive + 1) % Modulus
    /\ total_size' = (total_size + sz + BOUNDARY_CHECK_SIZE) % Modulus
    /\ active_size' = (active_size + sz) % Modulus

\* ++ntotal; ++nactive; total_size += sz; active_size += sz
CountAlloc(sz) ==
    /\ ntotal' = (ntotal + 1) % Modulus
    /\ nactive' = (nactive + 1) % Modulus
    /\ total_size' = (total_size + sz) % Modulus
    /\ active_size' = (active_size + sz) % Modulus

\* meta->line = line; meta->file = file; meta->sz = sz
NewRecord(file, line, sz) == [file |-> file, line |-> line, sz |-> sz]

\* metadata.insert(pair(uintptr_memory, meta)): an existing key is kept
MapInsert(md, p, meta) ==
    IF p \in DOMAIN md THEN md
    ELSE [a \in DOMAIN md \cup {p} |-> IF a = p THEN meta ELSE md[a]]

\* NewHeapMax taking the block's base for its end
NewHeapMaxBase(p, sz) == IF p > heap_max THEN p ELSE heap_max

\* the heap bounds after a block of sz bytes at p
NewHeapMin(p, sz) == IF p < heap_min THEN p ELSE heap_min
NewHeapMax(p, sz) ==
    IF (p + sz) % Modulus > heap_max THEN (p + sz) % Modulus ELSE heap_max

\* m61_malloc from the raw request on; zeroed is whether the caller is
\* m61_calloc, which memsets the returned block
AllocateFrom(sz, file, line, zeroed) ==
    \E memory \in base_malloc(raw, (sz + BOUNDARY_CHECK_SIZE) % Modulus) :
        LET req == BaseMallocCall((sz + BOUNDARY_CHECK_SIZE) % Modulus, memory)
        IN
        IF memory = nullptr
        THEN FailRaw(sz) /\ ReturnNull(<<req>>)
        ELSE
            LET raw1 == RawAdd(raw, memory, (sz + BOUNDARY_CHECK_SIZE) % Modulus)
                mem1 == WriteBoundary(mem, memory, sz)
            IN
            \E meta \in base_malloc(raw1, MetaNodeSize) :
                /\ free_list' = ClearReuse(free_list, memory)
                /\ CountAlloc(sz)
                /\ basecalls' = <<req, BaseMallocCall(MetaNodeSize, meta)>>
                /\ diag' = "none"
                /\ UNCHANGED <<nfail, fail_size, nwrites, nfreed>>
                /\ IF meta = nullptr
                   THEN \* meta->line = line through a null pointer
                        /\ term' = "crash"
                        /\ ret' = nullptr
                        /\ raw' = raw1
                        /\ mem' = mem1
                        /\ UNCHANGED <<metadata, node, heap_min, heap_max,
                                       life, ever, reissued, born, sites>>
                   ELSE /\ raw' = RawAdd(raw1, meta, MetaNodeSize)
                        /\ node' = [a \in DOMAIN node \cup {meta} |->
                                      IF a = meta THEN NewRecord(file, line, sz)
                                      ELSE node[a]]
                        /\ metadata' = MapInsert(metadata, memory, meta)
                        /\ heap_min' = NewHeapMin(memory, sz)
                        /\ heap_max' = NewHeapMax(memory, sz)
                        /\ ret' = memory
                        /\ mem' = IF zeroed THEN Memset(mem1, memory, 0, sz)
                                   ELSE mem1
                        /\ life' = [life EXCEPT ![memory] = "Live"]
                        /\ ever' = ever \cup {<<memory, sz>>}
                        /\ born' = [born EXCEPT ![memory] =
                                        NewRecord(file, line, sz)]
                        /\ sites' = [sites EXCEPT ![<<file, line>>] =
                                        [bytes |-> @.bytes + sz,
                                         count |-> @.count + 1]]
                        /\ reissued' = IF memory \in free_list
                                       THEN reissued \cup {memory}
                                       ELSE reissued \ {memory}
                        /\ UNCHANGED term

m61_malloc_body(sz, file, line, zeroed) ==
    IF TooLarge(sz)
    THEN FailOverflow(sz) /\ ReturnNull(<< >>)
    ELSE AllocateFrom(sz, file, line, zeroed)

m61_malloc(sz, file, line) ==
    /\ call' = [op |-> "m61_malloc", sz |-> sz, file |-> file, line |-> line]
    /\ Quiet
    /\ steps' = << >>
    /\ m61_malloc_body(sz, file, line, FALSE)

(***************************************************************************)
(* m61_calloc                                                              *)
(***************************************************************************)
\* size_t total = nmemb * sz
CallocTotal(nmemb, sz) == (nmemb * sz) % Modulus

\* CallocOverflow without the check
CallocOverflowNever(nmemb, sz) == FALSE

\* nmemb != 0 && (total / nmemb) != sz
CallocOverflow(nmemb, sz) ==
    nmemb # 0 /\ (CallocTotal(nmemb, sz) \div nmemb) # sz

\* ++nfail; fail_size += sz; of the overflow check
FailCalloc(sz) ==
    /\ nfail' = (nfail + 1) % Modulus
    /\ fail_size' = (fail_size + sz) % Modulus

m61_calloc(nmemb, sz, file, line) ==
    /\ call' = [op |-> "m61_calloc", nmemb |-> nmemb, sz |-> sz,
                file |-> file, line |-> line]
    /\ Quiet
    /\ steps' = << >>
    /\ IF CallocOverflow(nmemb, sz)
       THEN FailCalloc(sz) /\ ReturnNull(<< >>)
       ELSE m61_malloc_body(CallocTotal(nmemb, sz), file, line, TRUE)

(***************************************************************************)
(* m61_free                                                                *)
(***************************************************************************)
\* printf("MEMORY BUG: ..."); exit(-1);
Fatal(d) ==
    /\ diag' = d
    /\ term' = "exit"
    /\ ret' = nullptr
    /\ basecalls' = << >>
    /\ UNCHANGED <<tracker, raw, mem, life, ever, reissued, nwrites, born,
                   sites, nfreed>>

\* temp = (int*)(uptr + meta->second->sz); temp[0] != BOUNDARY_CHECK
BoundaryIntact(m, uptr, sz) == LoadInt(m, (uptr + sz) % Modulus) = BOUNDARY_CHECK

\* DiscountFree forgetting the bytes
DiscountFreeCountOnly(sz) ==
    /\ nactive' = (nactive + Modulus - 1) % Modulus
    /\ active_size' = active_size

\* --nactive; active_size -= meta->second->sz
DiscountFree(sz) ==
    /\ nactive' = (nactive + Modulus - 1) % Modulus
    /\ active_size' = (active_size + Modulus - sz) % Modulus

\* metadata.erase(meta)
MapErase(md, p) == [a \in DOMAIN md \ {p} |-> md[a]]

\* FreeListInsert that records nothing
FreeListInsertNone(fl, p) == fl

\* free_list.insert(uptr)
FreeListInsert(fl, p) == fl \cup {p}

\* ClassifyInvalid with the upper bound excluded
ClassifyInvalidExclusive(uptr, hmin, hmax) ==
    IF uptr < hmin \/ uptr >= hmax THEN "not in heap" ELSE "not allocated"

\* the diagnostic for a pointer that is neither live nor in free_list
ClassifyInvalid(uptr, hmin, hmax) ==
    IF uptr < hmin \/ uptr > hmax THEN "not in heap" ELSE "not allocated"

\* what reading meta->second after metadata.erase(meta) can do: return the
\* value the erased entry held, or trap on the released map node
EraseReadOutcomes == {"stale", "trap"}

\* the steps of m61_free on a live block, in the order of its statements
FreeSteps ==
    <<"canary check", "decrement counters", "erase entry", "read erased entry",
      "release record", "write erased entry", "insert free_list",
      "release block">>

ReleaseLive(ptr) ==
    LET rec == metadata[ptr]
        sz == node[rec].sz
    IN
    IF ~BoundaryIntact(mem, ptr, sz)
    THEN Fatal("wild write") /\ steps' = SubSeq(FreeSteps, 1, 1)
    ELSE
        \E outcome \in EraseReadOutcomes :
            /\ DiscountFree(sz)
            /\ metadata' = MapErase(metadata, ptr)
            /\ diag' = "none"
            /\ ret' = nullptr
            /\ UNCHANGED <<ntotal, total_size, fail_size, nfail, heap_min,
                           heap_max, mem, ever, nwrites, sites>>
            /\ reissued' = reissued \ {ptr}
            /\ IF outcome = "trap"
               THEN /\ term' = "crash"
                    /\ basecalls' = << >>
                    /\ steps' = SubSeq(FreeSteps, 1, 4)
                    /\ UNCHANGED <<node, free_list, raw, life, born, nfreed>>
               ELSE /\ raw' = base_free(base_free(raw, rec), ptr)
                    /\ node' = [a \in DOMAIN node \ {rec} |-> node[a]]
                    /\ free_list' = FreeListInsert(free_list, ptr)
                    /\ basecalls' = <<BaseFreeCall(rec), BaseFreeCall(ptr)>>
                    /\ steps' = FreeSteps
                    /\ life' = [life EXCEPT ![ptr] = "Freed"]
                    /\ born' = [born EXCEPT ![ptr] = NoRecord]
                    /\ nfreed' = nfreed + 1
                    /\ UNCHANGED term

\* IsNull that takes no pointer for null
IsNullNever(ptr) == FALSE

\* !ptr
IsNull(ptr) == ptr = nullptr

m61_free(ptr, file, line) ==
    /\ call' = [op |-> "m61_free", ptr |-> ptr]
    /\ Quiet
    /\ IF IsNull(ptr)
       THEN /\ ret' = nullptr
            /\ diag' = "none"
            /\ basecalls' = << >>
            /\ steps' = << >>
            /\ UNCHANGED <<tracker, raw, mem, term, life, ever, reissued,
                           nwrites, born, sites, nfreed>>
       ELSE IF ptr \in free_list
       THEN Fatal("double free") /\ steps' = << >>
       ELSE IF ptr \in DOMAIN metadata
       THEN ReleaseLive(ptr)
       ELSE Fatal(ClassifyInvalid(ptr, heap_min, heap_max)) /\ steps' = << >>

(***************************************************************************)
(* The host program storing a byte at, just below or just past the end of  *)
(* the payload of one of its live blocks.                                  *)
(***************************************************************************)
WriteTargets ==
    UNION {{ptr + node[metadata[ptr]].sz + d : d \in {-1, 0, 3}} \cap
           (ptr .. ptr + node[metadata[ptr]].sz + 3) : ptr \in DOMAIN metadata}

ProgramWrite(a, v) ==
    /\ a \in WriteTargets
    /\ mem' = [mem EXCEPT ![a] = v]
    /\ nwrites' = nwrites + 1
    /\ call' = [op |-> "write", addr |-> a, val |-> v]
    /\ ret' = nullptr
    /\ diag' = "none"
    /\ basecalls' = << >>
    /\ Quiet
    /\ steps' = << >>
    /\ UNCHANGED <<tracker, raw, term, life, ever, reissued, born, sites, nfreed>>

(***************************************************************************)
(* The reporters.                                                          *)
(***************************************************************************)
\* Snapshot as the stub that fills the structure with 255s
SnapshotStub ==
    [set |-> TRUE,
     nactive |-> ULONG_MAX, active_size |-> ULONG_MAX, total_size |-> ULONG_MAX,
     fail_size |-> ULONG_MAX, nfail |-> ULONG_MAX, ntotal |-> ULONG_MAX,
     heap_max |-> ULONG_MAX, heap_min |-> ULONG_MAX]

\* stats->nactive = nactive; ... stats->heap_min = heap_min
Snapshot ==
    [set |-> TRUE,
     nactive |-> nactive, active_size |-> active_size, total_size |-> total_size,
     fail_size |-> fail_size, nfail |-> nfail, ntotal |-> ntotal,
     heap_max |-> heap_max, heap_min |-> heap_min]

\* a reporter returns nothing, ends nothing and calls no raw allocator
Reports(op) ==
    /\ call' = [op |-> op]
    /\ ret' = nullptr
    /\ diag' = "none"
    /\ basecalls' = << >>
    /\ steps' = << >>
    /\ UNCHANGED <<tracker, raw, mem, term, life, ever, reissued, nwrites,
                   born, sites, nfreed>>

m61_get_statistics ==
    /\ Reports("m61_get_statistics")
    /\ stats' = Snapshot
    /\ out' = << >>

\* the two lines of m61_print_statistics
StatLines(st) ==
    <<[label |-> "alloc count", active |-> st.nactive, total |-> st.ntotal,
       fail |-> st.nfail],
      [label |-> "alloc size", active |-> st.active_size,
       total |-> st.total_size, fail |-> st.fail_size]>>

m61_print_statistics ==
    /\ Reports("m61_print_statistics")
    /\ stats' = NoStats
    /\ out' = StatLines(Snapshot)

\* the keys of a map in the order its iterator visits them
RECURSIVE Ascending(_)
Ascending(S) ==
    IF S = {} THEN << >>
    ELSE LET lo == CHOOSE x \in S : \A y \in S : x <= y
         IN  <<lo>> \o Ascending(S \ {lo})

\* keys of the metadata map from metadata.begin() to metadata.end()
MapOrder(S) == Ascending(S)

\* LeakLine printing the padded size
LeakLinePadded(a) ==
    [file |-> node[metadata[a]].file, line |-> node[metadata[a]].line,
     addr |-> a, sz |-> node[metadata[a]].sz + BOUNDARY_CHECK_SIZE]

\* "LEAK CHECK: %s:%lu: allocated object %p with size %llu"
LeakLine(a) ==
    [file |-> node[metadata[a]].file, line |-> node[metadata[a]].line,
     addr |-> a, sz |-> node[metadata[a]].sz]

m61_print_leak_report ==
    /\ Reports("m61_print_leak_report")
    /\ stats' = NoStats
    /\ out' = [i \in 1 .. Cardinality(DOMAIN metadata) |->
                  LeakLine(MapOrder(DOMAIN metadata)[i])]

\* the body of m61_print_heavy_hitter_report is empty
m61_print_heavy_hitter_report ==
    /\ Reports("m61_print_heavy_hitter_report")
    /\ stats' = NoStats
    /\ out' = << >>

(***************************************************************************)
(* The calls a single-threaded host program makes, one at a time, until    *)
(* the process ends.                                                       *)
(***************************************************************************)
Running == term = "running"
\* the caps on the calls counted so far
MayAllocate == Running /\ ntotal < MaxAllocs /\ nfail < MaxFails

\* pointers a caller hands to m61_free: null, live and freed blocks, the
\* inside of a live block, the addresses at and around the heap bounds, and
\* an address below every block
FreeArgs ==
    {nullptr, 1} \cup DOMAIN metadata \cup free_list
    \cup {p + 1 : p \in DOMAIN metadata}
    \cup ({heap_min - 1, heap_max, heap_max + 1} \cap (1 .. ULONG_MAX))

Malloc ==
    /\ MayAllocate
    /\ \E q \in Requests : m61_malloc(q[1], q[2], q[3])

Calloc ==
    /\ MayAllocate
    /\ \E q \in ArrayRequests : m61_calloc(q[1], q[2], q[3], q[4])

Free ==
    /\ Running
    /\ \E ptr \in FreeArgs, file \in FreeFiles, line \in Lines : m61_free(ptr, file, line)

Write ==
    /\ Running
    /\ nwrites < MaxWrites
    /\ \E a \in WriteTargets, v \in WriteBytes : ProgramWrite(a, v)

GetStatistics == Running /\ m61_get_statistics
PrintStatistics == Running /\ m61_print_statistics
PrintLeakReport == Running /\ m61_print_leak_report
PrintHeavyHitterReport == Running /\ m61_print_heavy_hitter_report

Next == Malloc \/ Calloc \/ Free

Spec == Init /\ [][Next]_vars

\* runs in which the program also writes at the end of its blocks and the
\* raw allocator has memory for every request
Served == ret' # nullptr /\ term' = "running"
NextWild == (Malloc /\ Served) \/ Free \/ Write

SpecWild == Init /\ [][NextWild]_vars

\* runs of requests of every magnitude
MayAllocateSized == Running /\ ntotal < MaxAllocs /\ nfail < MaxFails

MallocSized ==
    /\ MayAllocateSized
    /\ \E sz \in {0, MaxSize} \cup HugeSizes : m61_malloc(sz, "x.c", 5)

CallocSized ==
    /\ MayAllocateSized
    /\ \E nmemb \in Counts, sz \in ElemSizes : m61_calloc(nmemb, sz, "y.c", 5)

NextSizes == MallocSized \/ CallocSized

SpecSizes == Init /\ [][NextSizes]_vars

\* runs in which requests fail more than once
MayFailAgain == Running /\ ntotal < MaxAllocs /\ nfail <= MaxFails

MallocFailing ==
    /\ MayFailAgain
    /\ \E sz \in {MaxSize, Modulus \div 2, ULONG_MAX} : m61_malloc(sz, "x.c", 5)

CallocFailing ==
    /\ MayFailAgain
    /\ \E q \in ArrayRequests : m61_calloc(q[1], q[2], q[3], q[4])

NextFails == MallocFailing \/ CallocFailing \/ Free

SpecFails == Init /\ [][NextFails]_vars

\* runs in which every request is served and the program asks for reports
NextReport ==
    \/ (Malloc /\ Served) \/ (Calloc /\ Served) \/ Free
    \/ GetStatistics \/ PrintStatistics \/ PrintLeakReport
    \/ PrintHeavyHitterReport

SpecReport == Init /\ [][NextReport]_vars

(***************************************************************************)
(* Properties.                                                             *)
(***************************************************************************)
AllocOps == {"m61_malloc", "m61_calloc"}

\* the size a call asks m61_malloc for
Requested(c) ==
    IF c.op = "m61_calloc" THEN (c.nmemb * c.sz) % Modulus ELSE c.sz

RECURSIVE SumOfSizes(_)
SumOfSizes(S) ==
    IF S = {} THEN 0
    ELSE LET p == CHOOSE x \in S : TRUE
         IN  node[metadata[p]].sz + SumOfSizes(S \ {p})

\* the bytes at a + s are the bytes of the sentinel
SentinelAt(m, a, s) ==
    \A i \in 0 .. (BOUNDARY_CHECK_SIZE - 1) : m[a + s + i] = ByteOf(BOUNDARY_CHECK, i)

\* C1: while the process runs, active_size is the sum of sz over the records
\* in the metadata map and nactive is the number of its entries.
C1_ActiveMatchesStore ==
    Running =>
        /\ active_size = SumOfSizes(DOMAIN metadata)
        /\ nactive = Cardinality(DOMAIN metadata)

\* two blocks were allocated and one of them freed
C1_Witness ==
    /\ Running
    /\ ntotal = 2 /\ nactive = 1 /\ active_size > 0
    /\ free_list # {}
    /\ call.op = "m61_free"

\* no address is live and freed at once
C2_NeverLiveAndFreed == DOMAIN metadata \cap free_list = {}

\* the metadata map and free_list hold the addresses the history of calls
\* makes live and freed
C2_HistoryAgrees ==
    Running =>
        \A a \in SlotAddrs :
            /\ (life[a] = "Live") <=> (a \in DOMAIN metadata)
            /\ (life[a] = "Freed") <=> (a \in free_list)

\* how an address enters the metadata map, enters free_list and leaves it
C2_Step ==
    \A a \in DOMAIN metadata \cup DOMAIN metadata' \cup free_list \cup free_list' :
        /\ (a \notin DOMAIN metadata /\ a \in DOMAIN metadata') =>
              /\ call'.op \in AllocOps
              /\ ret' = a
              /\ term' = "running"
        /\ (a \notin free_list /\ a \in free_list') =>
              /\ a \in DOMAIN metadata /\ a \notin DOMAIN metadata'
              /\ call' = [op |-> "m61_free", ptr |-> a]
              /\ diag' = "none" /\ term' = "running"
        /\ (a \in free_list /\ a \notin free_list') =>
              /\ call'.op \in AllocOps
              /\ basecalls'[1].res = a
              /\ term' = "running" =>
                    /\ ret' = a
                    /\ a \in DOMAIN metadata'
                    /\ metadata'[a] = basecalls'[2].res
                    /\ node'[metadata'[a]] =
                          [file |-> call'.file, line |-> call'.line,
                           sz |-> Requested(call')]

\* C2: no address is both a key of the metadata map and in free_list; an
\* address becomes live only as the return value of a successful allocation,
\* enters free_list only from live through a successful m61_free of it, and
\* leaves free_list only in an allocation that is handed it, which, when it
\* returns, has made it live under a record newly obtained and filled from
\* that call.
C2_Lifecycle ==
    /\ [](C2_NeverLiveAndFreed /\ C2_HistoryAgrees)
    /\ [][C2_Step]_vars

\* a freed address was handed out again and is live under a new record
C2_Witness ==
    /\ Running
    /\ call.op \in AllocOps
    /\ ret \in reissued
    /\ ret \in DOMAIN metadata
    /\ ntotal = 2 /\ nactive = 1

\* a free of an address whose last event was a successful free
C3_Step ==
    (/\ call'.op = "m61_free"
     /\ call'.ptr \in SlotAddrs
     /\ life[call'.ptr] = "Freed") =>
        /\ diag' = "double free"
        /\ term' = "exit"
        /\ UNCHANGED tracker

\* C3: m61_free of a pointer that was allocated and freed, with no allocation
\* returning it since, reports "double free", ends the process and changes
\* none of the counters, the metadata map, free_list or the heap bounds.
C3_DoubleFree == [][C3_Step]_vars

\* a second free of a freed block, with another block live
C3_Witness ==
    /\ call.op = "m61_free"
    /\ diag = "double free"
    /\ term = "exit"
    /\ life[call.ptr] = "Freed"
    /\ nactive = 1

\* an allocation's result is not in free_list, and a free of a reissued
\* pointer returns with the block released
C4_Step ==
    /\ (call'.op \in AllocOps /\ ret' # nullptr) => ret' \notin free_list'
    /\ (/\ call'.op = "m61_free"
        /\ call'.ptr \in reissued
        /\ call'.ptr \in DOMAIN metadata
        /\ SentinelAt(mem, call'.ptr, node[metadata[call'.ptr]].sz)) =>
           /\ diag' = "none"
           /\ term' = "running"
           /\ call'.ptr \notin DOMAIN metadata'
           /\ call'.ptr \in free_list'
           /\ nactive' = nactive - 1

\* C4: m61_malloc removes a reissued address from free_list, and m61_free of
\* the reissued pointer, its boundary word intact, is an ordinary successful
\* free, never a double free.
C4_ReissuedFreeSucceeds == [][C4_Step]_vars

\* C4_Step without the requirement that the free returns
C4_StepNoDoubleFree ==
    /\ (call'.op \in AllocOps /\ ret' # nullptr) => ret' \notin free_list'
    /\ (/\ call'.op = "m61_free"
        /\ call'.ptr \in reissued
        /\ call'.ptr \in DOMAIN metadata
        /\ SentinelAt(mem, call'.ptr, node[metadata[call'.ptr]].sz)) =>
           /\ diag' = "none"
           /\ call'.ptr \notin DOMAIN metadata'
           /\ nactive' = nactive - 1

\* the part of C4 that holds whatever the read of the erased map entry does:
\* the reissued address leaves free_list and its free is no double free
C4_ReissuedNeverDoubleFree == [][C4_StepNoDoubleFree]_vars

\* the sentinel after an allocation, and what it decides in a free
C5_Step ==
    /\ (call'.op \in AllocOps /\ ret' # nullptr) =>
           SentinelAt(mem', ret', Requested(call'))
    /\ (call'.op = "m61_free" /\ call'.ptr \in DOMAIN metadata) =>
           IF SentinelAt(mem, call'.ptr, node[metadata[call'.ptr]].sz)
           THEN /\ diag' = "none"
                /\ term' = "running"
                /\ call'.ptr \notin DOMAIN metadata'
                /\ call'.ptr \in free_list'
           ELSE /\ diag' = "wild write"
                /\ term' = "exit"
                /\ UNCHANGED tracker

\* C5: m61_malloc leaves the sentinel at address + sz; m61_free of a live
\* pointer whose bytes at address + record.sz differ from the sentinel reports
\* "wild write" and ends the process with the tracker unchanged; with the
\* sentinel intact the free succeeds.
C5_CanaryDecidesFree == [][C5_Step]_vars

\* C5_Step without the requirement that the free returns
C5_StepDetection ==
    /\ (call'.op \in AllocOps /\ ret' # nullptr) =>
           SentinelAt(mem', ret', Requested(call'))
    /\ (call'.op = "m61_free" /\ call'.ptr \in DOMAIN metadata) =>
           IF SentinelAt(mem, call'.ptr, node[metadata[call'.ptr]].sz)
           THEN /\ diag' = "none"
                /\ call'.ptr \notin DOMAIN metadata'
           ELSE /\ diag' = "wild write"
                /\ term' = "exit"
                /\ UNCHANGED tracker

\* the part of C5 that holds whatever the read of the erased map entry does:
\* a free reports "wild write" exactly when the sentinel was overwritten
C5_CanaryDetection == [][C5_StepDetection]_vars

\* a free of a pointer the tracker has no record of
C6_Step ==
    (/\ call'.op = "m61_free"
     /\ call'.ptr # nullptr
     /\ call'.ptr \notin DOMAIN metadata
     /\ call'.ptr \notin free_list) =>
        /\ term' = "exit"
        /\ UNCHANGED tracker
        /\ diag' \in {"not in heap", "not allocated"}
        /\ (diag' = "not allocated") <=>
              (heap_min <= call'.ptr /\ call'.ptr <= heap_max)
        /\ (ever = {}) => (diag' = "not in heap")

\* C6: m61_free of a non-null pointer that is neither live nor in free_list
\* ends the process with the tracker unchanged, saying "not in heap" exactly
\* when the pointer is outside [heap_min, heap_max] and "not allocated"
\* exactly when it is inside; before any allocation has succeeded it always
\* says "not in heap".
C6_InvalidFree == [][C6_Step]_vars

\* a pointer at the upper heap bound, inside a live block, is not allocated
C6_Witness ==
    /\ call.op = "m61_free"
    /\ term = "exit"
    /\ diag = "not allocated"
    /\ call.ptr = heap_max
    /\ \E p \in DOMAIN metadata : p < call.ptr /\ call.ptr <= p + node[metadata[p]].sz

\* an allocation call in which some base_malloc returned null
C7_Step ==
    (/\ call'.op \in AllocOps
     /\ \E i \in DOMAIN basecalls' :
           basecalls'[i].f = "base_malloc" /\ basecalls'[i].res = nullptr) =>
        /\ term' = "running"
        /\ ret' = nullptr
        /\ nfail' = (nfail + 1) % Modulus
        /\ DOMAIN metadata' = DOMAIN metadata

\* C7: an allocation call in which base_malloc fails, at whatever point,
\* returns null with the failure counted, the process running and no block
\* registered.
C7_FailureReturnsNull == [][C7_Step]_vars

\* an allocation call whose first base_malloc returned null
C8_Step ==
    (/\ call'.op \in AllocOps
     /\ Len(basecalls') >= 1
     /\ basecalls'[1].res = nullptr) =>
        /\ basecalls' = <<BaseMallocCall(Requested(call') + BOUNDARY_CHECK_SIZE, nullptr)>>
        /\ nfail' = (nfail + 1) % Modulus
        /\ fail_size' = (fail_size + Requested(call')) % Modulus
        /\ ret' = nullptr
        /\ term' = "running"
        /\ UNCHANGED <<ntotal, nactive, total_size, active_size, metadata, node,
                       free_list, heap_min, heap_max>>

\* C8: when base_malloc fails for the user block, nfail grows by one and
\* fail_size by the requested size, not the padded one (both in the counters'
\* unsigned arithmetic), null is returned, and the other counters, the
\* metadata map, free_list and the heap bounds keep their values.
C8_RawFailure == [][C8_Step]_vars

\* a request of MaxSize bytes failed in the raw allocator while a block is live
C8_Witness ==
    /\ call = [op |-> "m61_malloc", sz |-> MaxSize, file |-> "y.c", line |-> 5]
    /\ basecalls = <<BaseMallocCall(MaxSize + BOUNDARY_CHECK_SIZE, nullptr)>>
    /\ nfail = 1 /\ fail_size = MaxSize
    /\ DOMAIN metadata # {}

\* every block ever handed out lies within the heap bounds
C9_EverInBounds ==
    \A e \in ever : heap_min <= e[1] /\ e[1] + e[2] <= heap_max

\* the bounds only widen
C9_Step == heap_min' <= heap_min /\ heap_max' >= heap_max

\* C9: for every successful allocation ever made, of s bytes at a,
\* heap_min <= a and a + s <= heap_max in every later state; heap_min never
\* grows and heap_max never shrinks.
C9_HeapBounds == []C9_EverInBounds /\ [][C9_Step]_vars

\* two blocks were handed out, the lower one after the higher one, and the
\* one that reaches heap_max has been freed
C9_Witness ==
    /\ \E e \in ever : e[1] = heap_min /\ e[1] \in DOMAIN metadata
    /\ \E e \in ever : /\ e[2] > 0 /\ e[1] + e[2] = heap_max
                       /\ e[1] > heap_min /\ e[1] \in free_list

\* an array request whose product does not fit size_t
C10_Step ==
    (call'.op = "m61_calloc" /\ call'.nmemb * call'.sz >= Modulus) =>
        /\ ret' = nullptr
        /\ basecalls' = << >>
        /\ term' = "running"
        /\ nfail' = (nfail + 1) % Modulus
        /\ call'.sz > 0 /\ call'.sz < Modulus
        /\ fail_size' = (fail_size + call'.sz) % Modulus
        /\ fail_size' # fail_size
        /\ UNCHANGED <<metadata, node, free_list, ntotal, nactive, active_size,
                       total_size, heap_min, heap_max, raw, mem>>

\* C10: m61_calloc whose product overflows size_t returns null without
\* calling base_malloc, counts one failure, adds the element size (never zero
\* here) to fail_size in the counter's unsigned arithmetic, and changes
\* nothing else.
C10_CallocOverflow == [][C10_Step]_vars

\* an overflowing array request was refused while a block is live
C10_Witness ==
    /\ call.op = "m61_calloc"
    /\ call.nmemb * call.sz >= Modulus
    /\ CallocTotal(call.nmemb, call.sz) \in 1 .. MaxSize
    /\ nactive = 1
    /\ nfail = 1

\* the call reaches m61_malloc: it is m61_malloc, or m61_calloc with a
\* product that fits size_t
ReachesMalloc(c) ==
    \/ c.op = "m61_malloc"
    \/ c.op = "m61_calloc" /\ c.nmemb * c.sz < Modulus

\* a request whose padded size does not fit size_t, and the size every
\* base_malloc for a user block is called with
C11_Step ==
    /\ (ReachesMalloc(call') /\ Requested(call') + BOUNDARY_CHECK_SIZE > ULONG_MAX) =>
          /\ ret' = nullptr
          /\ term' = "running"
          /\ basecalls' = << >>
          /\ nfail' = (nfail + 1) % Modulus
          /\ fail_size' = (fail_size + Requested(call')) % Modulus
    /\ (ReachesMalloc(call') /\ Len(basecalls') >= 1) =>
          basecalls'[1].arg = Requested(call') + BOUNDARY_CHECK_SIZE

\* C11: for every sz with sz + BOUNDARY_CHECK_SIZE above the largest size_t,
\* m61_malloc returns null without calling base_malloc, adding one to nfail
\* and sz to fail_size (in the counters' unsigned arithmetic); base_malloc is
\* never called with a wrapped-around size.
C11_OverflowRejected == [][C11_Step]_vars

\* the smallest size whose padded size overflows was rejected, a block live
C11_Witness ==
    /\ call.op = "m61_malloc"
    /\ call.sz = ULONG_MAX - BOUNDARY_CHECK_SIZE + 1
    /\ ret = nullptr /\ basecalls = << >>
    /\ nfail = 1 /\ fail_size = ULONG_MAX - BOUNDARY_CHECK_SIZE + 1
    /\ nactive = 1

\* a request whose padded size fits size_t
C19_Step ==
    (ReachesMalloc(call') /\ Requested(call') + BOUNDARY_CHECK_SIZE <= ULONG_MAX) =>
        /\ Len(basecalls') >= 1
        /\ basecalls'[1].f = "base_malloc"
        /\ basecalls'[1].arg = Requested(call') + BOUNDARY_CHECK_SIZE
        /\ (nfail' # nfail) =>
              \E i \in DOMAIN basecalls' :
                  basecalls'[i].f = "base_malloc" /\ basecalls'[i].res = nullptr

\* C19: every request whose padded size sz + BOUNDARY_CHECK_SIZE is at most
\* the largest size_t is passed to base_malloc for exactly that many bytes,
\* and is counted as a failure only if base_malloc fails.
C19_OnlyOverflowRejected == [][C19_Step]_vars

\* no counter of totals or failures decreases, and the active counters
\* decrease only in a free of a live block that reports nothing
C12_Step ==
    /\ ntotal' >= ntotal
    /\ total_size' >= total_size
    /\ nfail' >= nfail
    /\ fail_size' >= fail_size
    /\ (nactive' < nactive \/ active_size' < active_size) =>
          /\ call'.op = "m61_free"
          /\ call'.ptr \in DOMAIN metadata
          /\ diag' = "none"

\* C12: across any sequence of m61_malloc, m61_calloc and m61_free calls,
\* with counters of fixed width, ntotal, total_size, nfail and fail_size
\* never decrease; nactive and active_size decrease only in an m61_free that
\* releases a live block.
C12_CountersMonotonic == [][C12_Step]_vars

\* number and bytes of the successful allocations so far, over a set of sites
RECURSIVE HistoricalCount(_)
HistoricalCount(S) ==
    IF S = {} THEN 0
    ELSE LET x == CHOOSE y \in S : TRUE
         IN  sites[x].count + HistoricalCount(S \ {x})

RECURSIVE HistoricalBytes(_)
HistoricalBytes(S) ==
    IF S = {} THEN 0
    ELSE LET x == CHOOSE y \in S : TRUE
         IN  sites[x].bytes + HistoricalBytes(S \ {x})

\* the blocks created and not freed since, and the bytes their calls asked for
Unfreed == {a \in SlotAddrs : born[a] # NoRecord}

RECURSIVE UnfreedBytes(_)
UnfreedBytes(S) ==
    IF S = {} THEN 0
    ELSE LET x == CHOOSE y \in S : TRUE
         IN  born[x].sz + UnfreedBytes(S \ {x})

\* C13: from the empty state, after any sequence of successful allocations
\* and valid frees, ntotal is the number of successful allocations,
\* total_size the sum of their requested sizes, nactive the allocations minus
\* the frees, active_size the summed sizes of the blocks not yet freed, and
\* nfail is 0; m61_get_statistics stores these values.
C13_StatisticsScenario ==
    Running =>
        /\ ntotal = HistoricalCount(Sites)
        /\ total_size = HistoricalBytes(Sites)
        /\ nactive = HistoricalCount(Sites) - nfreed
        /\ active_size = UnfreedBytes(Unfreed)
        /\ nfail = 0
        /\ call.op = "m61_get_statistics" =>
              /\ stats.set
              /\ stats.ntotal = HistoricalCount(Sites)
              /\ stats.total_size = HistoricalBytes(Sites)
              /\ stats.nactive = HistoricalCount(Sites) - nfreed
              /\ stats.active_size = UnfreedBytes(Unfreed)
              /\ stats.nfail = 0

\* two blocks of different sizes were allocated, the larger one freed, and
\* the statistics read
C13_Witness ==
    /\ call.op = "m61_get_statistics"
    /\ stats.set
    /\ stats.ntotal = 2 /\ stats.nactive = 1 /\ stats.nfail = 0
    /\ stats.active_size = MaxSize
    /\ stats.total_size = 3 * MaxSize
    /\ nfreed = 1

\* the lines of a leak report: one per block allocated and not freed since,
\* by ascending address, with what the creating call recorded
C14_Step ==
    (call'.op = "m61_print_leak_report") =>
        /\ Len(out') = Cardinality({a \in SlotAddrs : life[a] = "Live"})
        /\ \A i \in 1 .. Len(out') :
              /\ life[out'[i].addr] = "Live"
              /\ born[out'[i].addr] =
                    [file |-> out'[i].file, line |-> out'[i].line, sz |-> out'[i].sz]
        /\ \A i, j \in 1 .. Len(out') : i < j => out'[i].addr < out'[j].addr

\* C14: m61_print_leak_report prints exactly one line per allocation made and
\* not yet freed, none for a freed one, in ascending address order, each with
\* the file, line and requested size of the call that created the block.
C14_LeakReport == [][C14_Step]_vars

\* two blocks were allocated, one freed, and the report has the one line of
\* the other
C14_Witness ==
    /\ call.op = "m61_print_leak_report"
    /\ ntotal = 2 /\ nfreed = 1
    /\ Len(out) = 1
    /\ out[1].sz = MaxSize /\ out[1].file = "y.c" /\ out[1].line = 5
    /\ out[1].addr \in DOMAIN metadata
    /\ free_list # {} /\ out[1].addr \notin free_list

\* the node pointers the metadata map holds
Records(md) == {md[a] : a \in DOMAIN md}

\* a served request of zero bytes, and a free of a live block of zero bytes
C15_StepDistinct ==
    /\ (call'.op = "m61_malloc" /\ call'.sz = 0 /\ ret' # nullptr) =>
          /\ ret' \notin DOMAIN metadata
          /\ DOMAIN metadata' = DOMAIN metadata \cup {ret'}
          /\ metadata'[ret'] \notin Records(metadata)
          /\ node'[metadata'[ret']].sz = 0
          /\ \A a \in DOMAIN metadata : metadata'[a] = metadata[a]
    /\ (/\ call'.op = "m61_free"
        /\ call'.ptr \in DOMAIN metadata
        /\ node[metadata[call'.ptr]].sz = 0) =>
          /\ diag' = "none"
          /\ DOMAIN metadata' = DOMAIN metadata \ {call'.ptr}
          /\ \A a \in DOMAIN metadata' : node'[metadata'[a]] = node[metadata[a]]
    /\ (/\ call'.op = "m61_free"
        /\ call'.ptr \in SlotAddrs
        /\ life[call'.ptr] = "Freed") =>
          diag' = "double free" /\ term' = "exit"

\* the free of a live block of zero bytes returns, with the block freed
C15_StepFreeable ==
    (/\ call'.op = "m61_free"
     /\ call'.ptr \in DOMAIN metadata
     /\ node[metadata[call'.ptr]].sz = 0) =>
        /\ term' = "running"
        /\ call'.ptr \in free_list'

\* C15: consecutive served m61_malloc(0) calls return non-null pointers
\* distinct from every live one, each under a record of its own of size 0;
\* each is freed successfully once, in any order, leaving the others live,
\* and a second free of it is a fatal double free.
C15_ZeroSizeUnique == [][C15_StepDistinct /\ C15_StepFreeable]_vars

\* the part of C15 that holds whatever the read of the erased map entry does
C15_ZeroSizeDistinct == [][C15_StepDistinct]_vars

\* a free of the null pointer
C16_Step ==
    (call'.op = "m61_free" /\ call'.ptr = nullptr) =>
        /\ term' = "running"
        /\ diag' = "none"
        /\ out' = << >>
        /\ basecalls' = << >>
        /\ UNCHANGED <<tracker, raw, mem>>

\* C16: m61_free(nullptr), in any state and any number of times, returns
\* normally, reports nothing, calls no base_free and leaves the counters, the
\* metadata map, free_list and the heap bounds unchanged.
C16_NullFree == [][C16_Step]_vars

\* the null pointer was freed with one block live and another freed
C16_Witness ==
    /\ call = [op |-> "m61_free", ptr |-> nullptr]
    /\ Running
    /\ nactive = 1 /\ free_list # {}
    /\ diag = "none" /\ basecalls = << >>

ReporterOps ==
    {"m61_get_statistics", "m61_print_statistics", "m61_print_leak_report",
     "m61_print_heavy_hitter_report"}

\* a call of a reporter
C17_Step ==
    (call'.op \in ReporterOps) =>
        /\ UNCHANGED <<tracker, raw, mem, term>>
        /\ (call'.op = "m61_get_statistics") =>
              stats' = [set |-> TRUE,
                        nactive |-> nactive, active_size |-> active_size,
                        total_size |-> total_size, fail_size |-> fail_size,
                        nfail |-> nfail, ntotal |-> ntotal,
                        heap_max |-> heap_max, heap_min |-> heap_min]

\* C17: the four reporters never change the counters, the metadata map,
\* free_list or the heap bounds, in any state; m61_get_statistics stores
\* exactly the current six counters and heap_min / heap_max.
C17_ReportersReadOnly == [][C17_Step]_vars

\* the statistics were read with one block live, one freed
C17_Witness ==
    /\ call.op = "m61_get_statistics"
    /\ stats.set
    /\ stats.ntotal = 2 /\ stats.nactive = 1
    /\ stats.heap_min = heap_min /\ stats.heap_max = heap_max
    /\ stats.heap_min < stats.heap_max
    /\ free_list # {}

\* the lines of a heavy hitter report: one per site that ever allocated, with
\* its bytes and count, by descending bytes
C18_Step ==
    (call'.op = "m61_print_heavy_hitter_report") =>
        /\ Len(out') = Cardinality({x \in Sites : sites[x].count > 0})
        /\ \A i \in 1 .. Len(out') :
              /\ out'[i].site \in Sites
              /\ out'[i].bytes = sites[out'[i].site].bytes
              /\ out'[i].count = sites[out'[i].site].count
        /\ \A i, j \in 1 .. Len(out') : i < j => out'[i].bytes >= out'[j].bytes
        /\ (\E x \in Sites : sites[x].bytes > 0) =>
              /\ Len(out') >= 1
              /\ \A x \in Sites : out'[1].bytes >= sites[x].bytes

\* C18: m61_print_heavy_hitter_report groups every allocation ever made,
\* freed ones included, by (file, line), sums bytes and counts per site and
\* reports the sites by descending bytes; after a successful allocation of
\* non-zero size the site with the largest total is reported.
C18_HeavyHitters == [][C18_Step]_vars

\* a free of a live block whose boundary word is intact
C20_Step ==
    (/\ call'.op = "m61_free"
     /\ call'.ptr \in DOMAIN metadata
     /\ SentinelAt(mem, call'.ptr, node[metadata[call'.ptr]].sz)) =>
        /\ steps' = <<"canary check", "decrement counters", "release record",
                      "erase entry", "insert free_list", "release block">>
        /\ \A i \in DOMAIN steps' :
              steps'[i] \notin {"read erased entry", "write erased entry"}
        /\ basecalls' = <<BaseFreeCall(metadata[call'.ptr]),
                          BaseFreeCall(call'.ptr)>>

\* C20: a successful m61_free checks the canary, decrements the counters,
\* releases the record while the map entry still holds it, removes the entry,
\* inserts into free_list and calls base_free on the block, in that order; it
\* never reads or writes the entry after erasing it, and releases the record
\* and the block exactly once each.
C20_FreeOrder == [][C20_Step]_vars

====
